---- MODULE Spec2Model ----
(***************************************************************************)
(* Model of payload_dumper.py: the operation interpreter (data_for_op),    *)
(* the BSDF2 patch reader (bsdf2_read_patch), the partition driver         *)
(* (dump_part) and the top-level partition loop.                           *)
(*                                                                         *)
(* Files are sequences of bytes (0..255); a file position p is the number  *)
(* of bytes before it, so byte p of the file is element p+1.               *)
(***************************************************************************)
EXTENDS Integers, Sequences, FiniteSets, TLC

VARIABLES
    pc,         \* "header" | "images" | "ops" | "exited": position of the script
    header,     \* [magic, version] read from the payload (lines 186, 189)
    diff,       \* args.diff
    images,     \* per selected image: TRUE iff the payload has that partition
    imgIdx,     \* images handled so far by the loop of lines 208-218
    opIdx,      \* operations of the current partition applied so far
    out_file,   \* bytes of the current partition's output image
    old_file,   \* bytes of the current partition's source image (differential)
    err,        \* "none", or the error that ended the process
    lastOp,     \* history: the operation data_for_op was last called with
    prevOut,    \* history: out_file when that call started
    attempted,  \* history: images dump_part was called for
    failedAt,   \* history: image whose dump_part ended the process (0: none)
    maxEnd,     \* history: largest start_block+num_blocks over the dst_extents applied
    finished,   \* history: dump_part returned for the current out_file
    p_in,       \* input of the patch application
    p_out,      \* its result
    r_in,       \* input of bsdf2_read_patch
    r_out       \* its result

progVars == <<pc, header, diff, images, imgIdx, opIdx, out_file, old_file, err,
              lastOp, prevOut, attempted, failedAt, maxEnd, finished>>
patchVars == <<p_in, p_out>>
readVars == <<r_in, r_out>>
vars == <<progVars, patchVars, readVars>>

---------------------------------------------------------------------------
(* Bounds of the model *)

BlockSize == 2      \* dam.block_size, in bytes
MaxStart == 2       \* largest start_block of a dst extent
MaxOps == 2         \* operations per partition in the driver
NumImages == 2      \* partitions selected for extraction
MaxCopy == 2        \* largest copy_len of a control tuple
MaxNewLen == 3      \* largest new_data_length handed to the patch applier
MaxTuples == 2      \* most complete control tuples in a patch handed to the reader

---------------------------------------------------------------------------
(* Sequences and files *)

Min(a, b) == IF a < b THEN a ELSE b
Max(a, b) == IF a < b THEN b ELSE a

Fill(n, b) == [i \in 1..n |-> b]

RECURSIVE Flatten(_)
Flatten(ss) == IF ss = <<>> THEN <<>> ELSE Head(ss) \o Flatten(Tail(ss))

\* f.seek(pos); f.read(n): short at the end of the file; n < 0 reads the rest
ReadAt(f, pos, n) ==
    IF n < 0 THEN SubSeq(f, pos + 1, Len(f))
    ELSE SubSeq(f, pos + 1, Min(pos + n, Len(f)))

\* f.seek(pos); f.write(data): a gap past the end of the file reads as zeros;
\* writing nothing leaves the file as it is
WriteAt(f, pos, data) ==
    IF data = <<>> THEN f
    ELSE LET padded == IF Len(f) < pos THEN f \o Fill(pos - Len(f), 0) ELSE f
         IN  SubSeq(padded, 1, pos) \o data
             \o SubSeq(padded, pos + Len(data) + 1, Len(padded))

Ext(s, n) == [start_block |-> s, num_blocks |-> n]

Ok(d) == [ok |-> TRUE, data |-> d]
Failed == [ok |-> FALSE, data |-> <<>>]

---------------------------------------------------------------------------
(* Library functions the script calls, by their contracts *)

\* hashlib.sha256(data).digest(): a deterministic, never empty digest
RECURSIVE WeightedSum(_, _, _)
WeightedSum(s, lo, hi) ==
    IF lo > hi THEN 0
    ELSE IF lo = hi THEN (lo * s[lo]) % 251
    ELSE LET mid == (lo + hi) \div 2
         IN  (WeightedSum(s, lo, mid) + WeightedSum(s, mid + 1, hi)) % 251

sha256(data) == <<Len(data) % 256, WeightedSum(data, 1, Len(data))>>

\* a stream of codec `kind` is the codec's magic byte followed by
\* (count, byte) runs; anything else is not a stream of that codec
Magic(kind) ==
    CASE kind = "xz" -> 253
      [] kind = "bz2" -> 66
      [] kind = "zstd" -> 40
      [] kind = "brotli" -> 206

\* the runs lo..hi of s, expanded
RECURSIVE Runs(_, _, _)
Runs(s, lo, hi) ==
    IF lo > hi THEN <<>>
    ELSE IF lo = hi THEN Fill(s[2 * lo - 1], s[2 * lo])
    ELSE LET mid == (lo + hi) \div 2
         IN  Runs(s, lo, mid) \o Runs(s, mid + 1, hi)

decompress(kind, data) ==
    IF data = <<>> \/ data[1] # Magic(kind) \/ Len(data) % 2 = 0 THEN Failed
    ELSE Ok(Runs(Tail(data), 1, (Len(data) - 1) \div 2))

\* bsdiff4.core.decode_int64: exactly 8 bytes, little-endian magnitude, the
\* top bit of the last byte the sign; magnitudes of 2^30 and more are capped
decode_int64(b) ==
    IF Len(b) # 8 THEN Failed
    ELSE LET big == b[4] > 63 \/ b[5] # 0 \/ b[6] # 0 \/ b[7] # 0 \/ b[8] % 128 # 0
             mag == IF big THEN 1073741823
                    ELSE b[1] + 256 * b[2] + 65536 * b[3] + 16777216 * b[4]
         IN  Ok(IF b[8] > 127 THEN 0 - mag ELSE mag)

---------------------------------------------------------------------------
(* bsdf2_decompress and bsdf2_read_patch *)

BSDIFF40 == <<66, 83, 68, 73, 70, 70, 52, 48>>     \* bsdiff4.format.MAGIC
BSDF2_MAGIC == <<66, 83, 68, 70, 50>>

\* any other alg falls off the end of the function: None, which no caller accepts
bsdf2_decompress(alg, data) ==
    CASE alg = 0 -> Ok(data)
      [] alg = 1 -> decompress("bz2", data)
      [] alg = 2 -> decompress("brotli", data)
      [] OTHER -> Failed

\* <<alg_control, alg_diff, alg_extra>> of the 8 bytes read as magic
PatchAlgs(magic) ==
    IF magic = BSDIFF40 THEN Ok(<<1, 1, 1>>)
    ELSE IF SubSeq(magic, 1, Min(5, Len(magic))) = BSDF2_MAGIC
         THEN IF Len(magic) < 8 THEN Failed
              ELSE Ok(<<magic[6], magic[7], magic[8]>>)
    ELSE Failed

\* faulty variant: only the complete 24-byte records are decoded
ControlTuples_DropPartial(bcontrol) ==
    LET n == Len(bcontrol) \div 24
        field(k, j) == decode_int64(ReadAt(bcontrol, 24 * (k - 1) + 8 * (j - 1), 8))
    IN  Ok([k \in 1..n |-> <<field(k, 1).data, field(k, 2).data, field(k, 3).data>>])

\* the list comprehension of lines 56-59: one record per 24 bytes started, the
\* slices of a record cut short (or empty) at the end of bcontrol
ControlTuples(bcontrol) ==
    LET n == (Len(bcontrol) + 23) \div 24
        field(k, j) == decode_int64(ReadAt(bcontrol, 24 * (k - 1) + 8 * (j - 1), 8))
    IN  IF \A k \in 1..n : \A j \in 1..3 : field(k, j).ok
        THEN Ok([k \in 1..n |-> <<field(k, 1).data, field(k, 2).data, field(k, 3).data>>])
        ELSE Failed

NoPatch == [ok |-> FALSE, len_dst |-> 0, tcontrol |-> <<>>, bdiff |-> <<>>, bextra |-> <<>>]

bsdf2_read_patch(fi) ==
    LET algs == PatchAlgs(ReadAt(fi, 0, 8))
        len_control == decode_int64(ReadAt(fi, 8, 8))
        len_diff == decode_int64(ReadAt(fi, 16, 8))
        len_dst == decode_int64(ReadAt(fi, 24, 8))
    IN  IF ~algs.ok \/ ~len_control.ok \/ ~len_diff.ok \/ ~len_dst.ok THEN NoPatch
        ELSE
        LET rawControl == ReadAt(fi, 32, len_control.data)
            bcontrol == bsdf2_decompress(algs.data[1], rawControl)
            tcontrol == IF bcontrol.ok THEN ControlTuples(bcontrol.data) ELSE Failed
            posDiff == 32 + Len(rawControl)
            rawDiff == ReadAt(fi, posDiff, len_diff.data)
            bdiff == bsdf2_decompress(algs.data[2], rawDiff)
            bextra == bsdf2_decompress(algs.data[3], ReadAt(fi, posDiff + Len(rawDiff), -1))
        IN  IF ~tcontrol.ok \/ ~bdiff.ok \/ ~bextra.ok THEN NoPatch
            ELSE [ok |-> TRUE, len_dst |-> len_dst.data, tcontrol |-> tcontrol.data,
                  bdiff |-> bdiff.data, bextra |-> bextra.data]

---------------------------------------------------------------------------
(* The patch applier (bsdiff4.core.patch), by the design's section 4.3 *)

\* byte addition wraps
AddBytes(d, o) == (d + o) % 256

\* faulty variant: seek_len is ignored
PatchStep_NoSeek(st, t, old_data, bdiff, bextra) ==
    LET copy_len == t[1]
        extra_len == t[2]
    IN  IF copy_len < 0 \/ extra_len < 0 \/ st.dpos + copy_len > Len(bdiff)
           \/ st.epos + extra_len > Len(bextra)
           \/ (copy_len > 0 /\ (st.old_pos < 0 \/ st.old_pos + copy_len > Len(old_data)))
        THEN [ok |-> FALSE, st |-> st]
        ELSE [ok |-> TRUE,
              st |-> [old_pos |-> st.old_pos + copy_len,
                      dpos |-> st.dpos + copy_len,
                      epos |-> st.epos + extra_len,
                      out |-> st.out
                              \o [i \in 1..copy_len |->
                                    AddBytes(bdiff[st.dpos + i], old_data[st.old_pos + i])]
                              \o SubSeq(bextra, st.epos + 1, st.epos + extra_len)]]

\* one control tuple applied at st = [old_pos, dpos, epos, out]
PatchStep(st, t, old_data, bdiff, bextra) ==
    LET copy_len == t[1]
        extra_len == t[2]
        seek_len == t[3]
    IN  IF copy_len < 0 \/ extra_len < 0 \/ st.dpos + copy_len > Len(bdiff)
           \/ st.epos + extra_len > Len(bextra)
           \/ (copy_len > 0 /\ (st.old_pos < 0 \/ st.old_pos + copy_len > Len(old_data)))
        THEN [ok |-> FALSE, st |-> st]
        ELSE [ok |-> TRUE,
              st |-> [old_pos |-> st.old_pos + copy_len + seek_len,
                      dpos |-> st.dpos + copy_len,
                      epos |-> st.epos + extra_len,
                      out |-> st.out
                              \o [i \in 1..copy_len |->
                                    AddBytes(bdiff[st.dpos + i], old_data[st.old_pos + i])]
                              \o SubSeq(bextra, st.epos + 1, st.epos + extra_len)]]

RECURSIVE PatchLoop(_, _, _, _, _, _)
PatchLoop(st, tcontrol, old_data, len_dst, bdiff, bextra) ==
    IF tcontrol = <<>> \/ Len(st.out) >= len_dst
    THEN IF Len(st.out) = len_dst THEN Ok(st.out) ELSE Failed
    ELSE LET r == PatchStep(st, Head(tcontrol), old_data, bdiff, bextra)
         IN  IF r.ok
             THEN PatchLoop(r.st, Tail(tcontrol), old_data, len_dst, bdiff, bextra)
             ELSE Failed

patch(old_data, len_dst, tcontrol, bdiff, bextra) ==
    PatchLoop([old_pos |-> 0, dpos |-> 0, epos |-> 0, out |-> <<>>],
              tcontrol, old_data, len_dst, bdiff, bextra)

---------------------------------------------------------------------------
(* The payload's data region, the source image and the manifest's operations *)

encode_int64(v) ==
    LET m == IF v < 0 THEN 0 - v ELSE v
    IN  <<m % 256, (m \div 256) % 256, 0, 0, 0, 0, 0, IF v < 0 THEN 128 ELSE 0>>

EncodeTuples(ts) ==
    Flatten([k \in 1..Len(ts) |->
               encode_int64(ts[k][1]) \o encode_int64(ts[k][2]) \o encode_int64(ts[k][3])])

\* a stream of codec `kind` that decompresses to s
Pack(kind, s) ==
    <<Magic(kind)>> \o [i \in 1..2 * Len(s) |-> IF i % 2 = 1 THEN 1 ELSE s[i \div 2]]

PackAlg(alg, s) ==
    CASE alg = 0 -> s
      [] alg = 1 -> Pack("bz2", s)
      [] alg = 2 -> Pack("brotli", s)

\* a patch file: magic, three lengths, then the three streams as stored
MakePatch(magic, control, bdiff, bextra, len_dst) ==
    magic \o encode_int64(Len(control)) \o encode_int64(Len(bdiff))
          \o encode_int64(len_dst) \o control \o bdiff \o bextra

Bsdf2(a, b, c) == BSDF2_MAGIC \o <<a, b, c>>

RawA == [i \in 1..BlockSize |-> 100 + i]
RawB == [i \in 1..2 * BlockSize |-> 120 + i]
XzBlob == <<Magic("xz"), BlockSize, 7, BlockSize, 8>>
BzBlob == <<Magic("bz2"), BlockSize, 9, BlockSize, 10>>
ZstdBlob == <<Magic("zstd"), BlockSize, 11>>
\* new_data = old_data + 1 bytewise, two blocks
PatchAdd ==
    MakePatch(Bsdf2(0, 0, 0), EncodeTuples(<<<<2 * BlockSize, 0, 0>>>>),
              Fill(2 * BlockSize, 1), <<>>, 2 * BlockSize)
\* new_data = first block of old_data - 1 bytewise (255 wraps), one block
PatchShort ==
    MakePatch(Bsdf2(0, 0, 0), EncodeTuples(<<<<BlockSize, 0, 0>>>>),
              Fill(BlockSize, 255), <<>>, BlockSize)
\* legacy container, bzip2 streams: new_data = one block of literal 77s
PatchExtra ==
    MakePatch(BSDIFF40, Pack("bz2", EncodeTuples(<<<<0, BlockSize, 0>>>>)),
              Pack("bz2", <<>>), Pack("bz2", Fill(BlockSize, 77)), BlockSize)
\* brotli control and extra: the first block of old_data twice (a backward seek)
PatchSeek ==
    MakePatch(Bsdf2(2, 0, 2),
              Pack("brotli", EncodeTuples(<<<<BlockSize, 0, 0 - BlockSize>>,
                                            <<BlockSize, 0, 0>>>>)),
              Fill(2 * BlockSize, 0), Pack("brotli", <<>>), 2 * BlockSize)
PatchBadMagic == <<0>> \o Tail(PatchAdd)
PatchMisaligned ==
    MakePatch(Bsdf2(0, 0, 0), EncodeTuples(<<<<BlockSize, 0, 0>>>>) \o <<0>>,
              Fill(BlockSize, 1), <<>>, BlockSize)

Blobs == <<RawA, RawB, XzBlob, BzBlob, ZstdBlob, PatchAdd, PatchShort, PatchExtra,
           PatchSeek, PatchBadMagic, PatchMisaligned>>

RawBlobs == {1, 2}
PackedBlobs == {3, 4, 5}
PatchBlobs == {6, 7, 8, 9, 10, 11}

\* args.payloadfile from data_offset on
PayloadData == Flatten(Blobs)

BlobOffset(k) == Len(Flatten(SubSeq(Blobs, 1, k - 1)))

\* the source image of a partition: every byte tells its position
OldImage == [i \in 1..(MaxStart + 1) * BlockSize |-> 10 + i]

HashOf(kind, data) ==
    CASE kind = "unset" -> <<>>
      [] kind = "good" -> sha256(data)
      [] kind = "bad" -> <<sha256(data)[1], (sha256(data)[2] + 1) % 251>>

HashKinds == {"unset", "good", "bad"}

\* an InstallOperation whose data is blob k (k = 0: no data)
MkOp(type, k, hashKind, src, dst) ==
    LET off == IF k = 0 THEN 0 ELSE BlobOffset(k)
        len == IF k = 0 THEN 0 ELSE Len(Blobs[k])
    IN  [type |-> type, data_offset |-> off, data_length |-> len,
         data_sha256_hash |-> HashOf(hashKind, ReadAt(PayloadData, off, len)),
         src_extents |-> src, dst_extents |-> dst]

NoOp == MkOp("NONE", 0, "unset", <<>>, <<>>)

DstLists ==
    {<<Ext(s, n)>> : s \in 0..MaxStart, n \in {1, 2}}
    \cup {<<Ext(s, 1), Ext(t, 1)>> : s \in 0..MaxStart, t \in 0..MaxStart}

SrcLists == {<<Ext(0, 1)>>, <<Ext(0, 2)>>, <<Ext(1, 1), Ext(0, 1)>>, <<Ext(MaxStart, 2)>>}

PackedTypes == {"REPLACE_XZ", "REPLACE_BZ", "ZSTD"}
DiffTypes == {"SOURCE_BSDIFF", "BROTLI_BSDIFF"}
KnownTypes == {"REPLACE"} \cup PackedTypes \cup {"ZERO", "SOURCE_COPY"} \cup DiffTypes
UnknownTypes == {"PUFFDIFF", "TYPE_255"}

\* the operations data_for_op is called with
AllOps ==
    {MkOp("REPLACE", k, h, <<>>, d) : k \in RawBlobs, h \in HashKinds, d \in DstLists}
    \cup {MkOp(t, k, h, <<>>, d) :
            t \in PackedTypes, k \in PackedBlobs, h \in HashKinds, d \in DstLists}
    \cup {MkOp("ZERO", k, h, <<>>, d) : k \in {0, 1}, h \in HashKinds, d \in DstLists}
    \cup {MkOp("SOURCE_COPY", 0, h, s, d) : h \in HashKinds, s \in SrcLists, d \in DstLists}
    \cup {MkOp(t, k, h, s, d) :
            t \in DiffTypes, k \in PatchBlobs, h \in HashKinds, s \in SrcLists,
            d \in DstLists}
    \cup {MkOp(t, k, h, <<>>, <<Ext(0, 1)>>) :
            t \in UnknownTypes, k \in {0, 1}, h \in HashKinds}

\* the operations the partition driver is run on
DriverOps ==
    {MkOp("REPLACE", 1, "good", <<>>, <<Ext(0, 1)>>),
     MkOp("REPLACE", 2, "unset", <<>>, <<Ext(1, 2)>>),
     MkOp("REPLACE", 1, "bad", <<>>, <<Ext(0, 1)>>),
     MkOp("REPLACE_XZ", 3, "good", <<>>, <<Ext(0, 2)>>),
     MkOp("REPLACE_BZ", 3, "unset", <<>>, <<Ext(0, 2)>>),
     MkOp("ZERO", 0, "unset", <<>>, <<Ext(0, 1), Ext(MaxStart, 1)>>),
     MkOp("SOURCE_COPY", 0, "unset", <<Ext(0, 1)>>, <<Ext(1, 1)>>),
     MkOp("SOURCE_COPY", 0, "unset", <<Ext(0, 2)>>, <<Ext(0, 1), Ext(MaxStart, 1)>>),
     MkOp("SOURCE_BSDIFF", 6, "good", <<Ext(0, 2)>>, <<Ext(0, 2)>>),
     MkOp("BROTLI_BSDIFF", 10, "unset", <<Ext(0, 2)>>, <<Ext(0, 2)>>),
     MkOp("TYPE_255", 0, "unset", <<>>, <<Ext(0, 1)>>)}

\* what the output image may hold when an operation starts
PriorOuts == {<<>>, Fill(BlockSize, 238), Fill((MaxStart + 3) * BlockSize, 238)}

---------------------------------------------------------------------------
(* data_for_op *)

Res(e, f) == [err |-> e, out |-> f]

\* faulty variant: the assert is compiled away
HashGate_Off(op, data) == TRUE

\* lines 79-80
HashGate(op, data) ==
    op.data_sha256_hash = <<>> \/ sha256(data) = op.data_sha256_hash

\* faulty variant: the block number is taken for a byte offset
ReplaceWrite_NoScale(op, out, data) ==
    WriteAt(out, op.dst_extents[1].start_block, data)

\* out_file.seek(op.dst_extents[0].start_block * block_size); out_file.write(data)
ReplaceWrite(op, out, data) ==
    WriteAt(out, op.dst_extents[1].start_block * BlockSize, data)

Replace(op, out, dec) ==
    IF ~dec.ok THEN Res("CodecError", out)
    ELSE IF op.dst_extents = <<>> THEN Res("IndexError", out)
    ELSE Res("none", ReplaceWrite(op, out, dec.data))

\* lines 105-108: each source extent is read and written at the running position
RECURSIVE CopyLoop(_, _, _, _)
CopyLoop(exts, out, pos, old) ==
    IF exts = <<>> THEN out
    ELSE LET data == ReadAt(old, Head(exts).start_block * BlockSize,
                            Head(exts).num_blocks * BlockSize)
         IN  CopyLoop(Tail(exts), WriteAt(out, pos, data), pos + Len(data), old)

SourceCopy(op, out, old) ==
    IF op.dst_extents = <<>> THEN Res("IndexError", out)
    ELSE Res("none", CopyLoop(op.src_extents, out,
                              op.dst_extents[1].start_block * BlockSize, old))

\* lines 114-120: the source extents, concatenated in order
OldData(op, old) ==
    Flatten([k \in 1..Len(op.src_extents) |->
               ReadAt(old, op.src_extents[k].start_block * BlockSize,
                      op.src_extents[k].num_blocks * BlockSize)])

\* lines 121-122: new_data written over tmp_buff from position 0; what old_data
\* holds past the end of new_data stays in the buffer
TmpBuff(old_data, new_data) ==
    new_data \o SubSeq(old_data, Len(new_data) + 1, Len(old_data))

\* lines 123-130
RECURSIVE DstLoop(_, _, _, _)
DstLoop(exts, out, n, tmp_buff) ==
    IF exts = <<>> THEN out
    ELSE LET ext == Head(exts)
             data == ReadAt(tmp_buff, n * BlockSize, ext.num_blocks * BlockSize)
         IN  DstLoop(Tail(exts), WriteAt(out, ext.start_block * BlockSize, data),
                     n + ext.num_blocks, tmp_buff)

\* new_data of a diff operation: the decoded patch applied to old_data
NewData(op, data, old) ==
    LET p == bsdf2_read_patch(data)
    IN  IF p.ok THEN patch(OldData(op, old), p.len_dst, p.tcontrol, p.bdiff, p.bextra)
        ELSE Failed

Bsdiff(op, out, old, data) ==
    IF op.dst_extents = <<>> THEN Res("IndexError", out)
    ELSE LET new_data == NewData(op, data, old)
         IN  IF ~new_data.ok THEN Res("PatchError", out)
             ELSE Res("none", DstLoop(op.dst_extents, out, 0,
                                      TmpBuff(OldData(op, old), new_data.data)))

\* faulty variant: only the first extent is zeroed
RECURSIVE ZeroLoop_FirstOnly(_, _)
ZeroLoop_FirstOnly(exts, out) ==
    IF exts = <<>> THEN out
    ELSE WriteAt(out, Head(exts).start_block * BlockSize,
                 Fill(Head(exts).num_blocks * BlockSize, 0))

\* lines 132-134
RECURSIVE ZeroLoop(_, _)
ZeroLoop(exts, out) ==
    IF exts = <<>> THEN out
    ELSE ZeroLoop(Tail(exts),
                  WriteAt(out, Head(exts).start_block * BlockSize,
                          Fill(Head(exts).num_blocks * BlockSize, 0)))

\* faulty variant: an unknown type is skipped without an error
Unsupported_Skip(op, out) == Res("none", out)

\* lines 135-137
Unsupported(op, out) == Res("Unsupported", out)

OpData(op) == ReadAt(PayloadData, op.data_offset, op.data_length)

data_for_op(op, out, old, isDiff) ==
    LET data == OpData(op)
    IN  IF ~HashGate(op, data) THEN Res("HashMismatch", out)
        ELSE CASE op.type = "REPLACE_XZ" -> Replace(op, out, decompress("xz", data))
               [] op.type = "ZSTD" -> Replace(op, out, decompress("zstd", data))
               [] op.type = "REPLACE_BZ" -> Replace(op, out, decompress("bz2", data))
               [] op.type = "REPLACE" -> Replace(op, out, Ok(data))
               [] op.type = "SOURCE_COPY" ->
                    IF ~isDiff THEN Res("ModeError", out) ELSE SourceCopy(op, out, old)
               [] op.type \in {"SOURCE_BSDIFF", "BROTLI_BSDIFF"} ->
                    IF ~isDiff THEN Res("ModeError", out) ELSE Bsdiff(op, out, old, data)
               [] op.type = "ZERO" -> Res("none", ZeroLoop(op.dst_extents, out))
               [] OTHER -> Unsupported(op, out)

---------------------------------------------------------------------------
(* The script: header checks, the loop over the images, dump_part *)

Headers == {[magic |-> "CrAU", version |-> 2], [magic |-> "PK", version |-> 2],
            [magic |-> "CrAU", version |-> 1]}

\* largest start_block + num_blocks over an extent list
RECURSIVE DstEnd(_)
DstEnd(exts) ==
    IF exts = <<>> THEN 0
    ELSE Max(Head(exts).start_block + Head(exts).num_blocks, DstEnd(Tail(exts)))

\* faulty variant: the error is caught per partition and the loop goes on
OnError_Continue(i) == [pc |-> "images", imgIdx |-> i + 1]

\* sys.exit, or an exception nothing catches, inside dump_part: the process ends
OnError(i) == [pc |-> "exited", imgIdx |-> i]

PatchIdle ==
    /\ p_in = [old_data |-> <<>>, len_dst |-> 0, tcontrol |-> <<>>,
               bdiff |-> <<>>, bextra |-> <<>>]
    /\ p_out = [done |-> FALSE, res |-> Failed]

ReadIdle ==
    /\ r_in = [magic |-> <<>>, tuples |-> <<>>, junk |-> 0, fi |-> <<>>]
    /\ r_out = [done |-> FALSE, res |-> NoPatch]

Init ==
    /\ pc = "header"
    /\ header \in Headers
    /\ diff \in BOOLEAN
    /\ images \in [1..NumImages -> BOOLEAN]
    /\ imgIdx = 0
    /\ opIdx = 0
    /\ out_file = <<>>
    /\ old_file = <<>>
    /\ err = "none"
    /\ lastOp = NoOp
    /\ prevOut = <<>>
    /\ attempted = {}
    /\ failedAt = 0
    /\ maxEnd = 0
    /\ finished = FALSE
    /\ PatchIdle
    /\ ReadIdle

\* lines 186-190
ParseHeader ==
    /\ pc = "header"
    /\ IF header.magic = "CrAU" /\ header.version = 2
       THEN pc' = "images" /\ err' = "none"
       ELSE pc' = "exited" /\ err' = "ContainerFormat"
    /\ UNCHANGED <<header, diff, images, imgIdx, opIdx, out_file, old_file, lastOp,
                   prevOut, attempted, failedAt, maxEnd, finished, patchVars, readVars>>

\* lines 214-218, no partition of that name
PartitionNotFound ==
    /\ pc = "images"
    /\ imgIdx < NumImages
    /\ ~images[imgIdx + 1]
    /\ imgIdx' = imgIdx + 1
    /\ UNCHANGED <<pc, header, diff, images, opIdx, out_file, old_file, err, lastOp,
                   prevOut, attempted, failedAt, maxEnd, finished, patchVars, readVars>>

\* dump_part, lines 145-151: the output is created empty, the source image opened
DumpPartOpen ==
    /\ pc = "images"
    /\ imgIdx < NumImages
    /\ images[imgIdx + 1]
    /\ attempted' = attempted \cup {imgIdx + 1}
    /\ out_file' = <<>>
    /\ opIdx' = 0
    /\ maxEnd' = 0
    /\ finished' = FALSE
    /\ lastOp' = NoOp
    /\ prevOut' = <<>>
    /\ \E present \in BOOLEAN :
         IF diff /\ ~present
         THEN /\ err' = "MissingSourceImage"
              /\ failedAt' = imgIdx + 1
              /\ pc' = OnError(imgIdx).pc
              /\ imgIdx' = OnError(imgIdx).imgIdx
              /\ old_file' = <<>>
         ELSE /\ pc' = "ops"
              /\ old_file' = (IF diff THEN OldImage ELSE <<>>)
              /\ UNCHANGED <<err, failedAt, imgIdx>>
    /\ UNCHANGED <<header, diff, images, patchVars, readVars>>

\* one call of data_for_op from the loop of lines 156-160
DataForOp(op) ==
    /\ pc = "ops"
    /\ LET r == data_for_op(op, out_file, old_file, diff)
       IN  /\ lastOp' = op
           /\ prevOut' = out_file
           /\ out_file' = r.out
           /\ IF r.err = "none"
              THEN /\ opIdx' = opIdx + 1
                   /\ maxEnd' = Max(maxEnd, DstEnd(op.dst_extents))
                   /\ UNCHANGED <<pc, imgIdx, err, failedAt>>
              ELSE /\ err' = r.err
                   /\ failedAt' = imgIdx + 1
                   /\ pc' = OnError(imgIdx).pc
                   /\ imgIdx' = OnError(imgIdx).imgIdx
                   /\ UNCHANGED <<opIdx, maxEnd>>
    /\ UNCHANGED <<header, diff, images, old_file, attempted, finished, patchVars,
                   readVars>>

ApplyOperation ==
    /\ opIdx < MaxOps
    /\ \E op \in DriverOps : DataForOp(op)

\* lines 162-163: part.operations is exhausted, dump_part returns
DumpPartDone ==
    /\ pc = "ops"
    /\ finished' = TRUE
    /\ pc' = "images"
    /\ imgIdx' = imgIdx + 1
    /\ UNCHANGED <<header, diff, images, opIdx, out_file, old_file, err, lastOp,
                   prevOut, attempted, failedAt, maxEnd, patchVars, readVars>>

\* the loop of lines 208-218 is over: the script ends
RunEnd ==
    /\ pc = "images"
    /\ imgIdx = NumImages
    /\ pc' = "exited"
    /\ UNCHANGED <<header, diff, images, imgIdx, opIdx, out_file, old_file, err,
                   lastOp, prevOut, attempted, failedAt, maxEnd, finished, patchVars,
                   readVars>>

Next ==
    \/ ParseHeader
    \/ PartitionNotFound
    \/ DumpPartOpen
    \/ ApplyOperation
    \/ DumpPartDone
    \/ RunEnd

Spec == Init /\ [][Next]_vars

---------------------------------------------------------------------------
(* One call of data_for_op on any operation, whatever the output holds *)

InitOp ==
    /\ pc = "ops"
    /\ header = [magic |-> "CrAU", version |-> 2]
    /\ diff \in BOOLEAN
    /\ images = [i \in 1..NumImages |-> TRUE]
    /\ imgIdx = 0
    /\ opIdx = 0
    /\ out_file \in PriorOuts
    /\ old_file = (IF diff THEN OldImage ELSE <<>>)
    /\ err = "none"
    /\ lastOp = NoOp
    /\ prevOut = <<>>
    /\ attempted = {1}
    /\ failedAt = 0
    /\ maxEnd = 0
    /\ finished = FALSE
    /\ PatchIdle
    /\ ReadIdle

CallDataForOp ==
    /\ lastOp = NoOp
    /\ \E op \in AllOps : DataForOp(op)

SpecOp == InitOp /\ [][CallDataForOp]_vars

---------------------------------------------------------------------------
(* The patch applier on its own *)

ProgIdle ==
    /\ pc = "exited"
    /\ header = [magic |-> "CrAU", version |-> 2]
    /\ diff = TRUE
    /\ images = [i \in 1..NumImages |-> TRUE]
    /\ imgIdx = 0
    /\ opIdx = 0
    /\ out_file = <<>>
    /\ old_file = <<>>
    /\ err = "none"
    /\ lastOp = NoOp
    /\ prevOut = <<>>
    /\ attempted = {}
    /\ failedAt = 0
    /\ maxEnd = 0
    /\ finished = FALSE

PatchTuples == {<<c, e, k>> : c \in 0..MaxCopy, e \in {0, 1}, k \in {-1, 0, 1}}

PatchControls ==
    {<<>>} \cup {<<t>> : t \in PatchTuples}
    \cup {<<t, u>> : t \in PatchTuples, u \in PatchTuples}

PatchInputs ==
    [old_data : {<<>>, <<10, 200>>, <<10, 20, 30, 40, 50>>},
     len_dst : 0..MaxNewLen,
     tcontrol : PatchControls,
     bdiff : {<<1, 255>>, <<1, 1, 1, 100>>},
     bextra : {<<>>, <<77, 78>>}]

InitPatch ==
    /\ ProgIdle
    /\ ReadIdle
    /\ p_in \in PatchInputs
    /\ p_out = [done |-> FALSE, res |-> Failed]

ApplyPatch ==
    /\ ~p_out.done
    /\ p_out' = [done |-> TRUE,
                 res |-> patch(p_in.old_data, p_in.len_dst, p_in.tcontrol,
                               p_in.bdiff, p_in.bextra)]
    /\ UNCHANGED <<progVars, p_in, readVars>>

SpecPatch == InitPatch /\ [][ApplyPatch]_vars

---------------------------------------------------------------------------
(* bsdf2_read_patch on its own *)

SeqsUpTo(S, n) == UNION {[1..k -> S] : k \in 0..n}

ReadTuples == {<<1, 2, -3>>, <<0, 300, 0>>}

\* a patch whose decompressed control stream is the encoding of `tuples`
\* followed by `junk` more bytes, less than one record
ReadInput(magic, tuples, junk) ==
    LET bcontrol == EncodeTuples(tuples) \o Fill(junk, 1)
        alg == PatchAlgs(magic).data
    IN  [magic |-> magic, tuples |-> tuples, junk |-> junk,
         fi |-> MakePatch(magic, PackAlg(alg[1], bcontrol), PackAlg(alg[2], <<5, 6>>),
                          PackAlg(alg[3], <<9>>), 3)]

ReadInputs ==
    {ReadInput(m, ts, j) :
       m \in {Bsdf2(0, 0, 0), Bsdf2(1, 0, 2), Bsdf2(2, 1, 0), BSDIFF40},
       ts \in SeqsUpTo(ReadTuples, MaxTuples),
       j \in 0..23}

InitRead ==
    /\ ProgIdle
    /\ PatchIdle
    /\ r_in \in ReadInputs
    /\ r_out = [done |-> FALSE, res |-> NoPatch]

ReadPatch ==
    /\ ~r_out.done
    /\ r_out' = [done |-> TRUE, res |-> bsdf2_read_patch(r_in.fi)]
    /\ UNCHANGED <<progVars, patchVars, r_in>>

SpecRead == InitRead /\ [][ReadPatch]_vars

---------------------------------------------------------------------------
(* Properties of data_for_op (specification SpecOp) *)

Called == lastOp # NoOp

\* the hash gate, stated on the bytes of the payload
HashMatches(op) ==
    op.data_sha256_hash = <<>>
    \/ op.data_sha256_hash
         = sha256(SubSeq(PayloadData, op.data_offset + 1,
                         Min(op.data_offset + op.data_length, Len(PayloadData))))

\* the bytes of block range [s, s+n) of file f that the file holds
BlockRange(f, s, n) == SubSeq(f, s * BlockSize + 1, Min((s + n) * BlockSize, Len(f)))

\* C1: an operation of any type whose data_sha256_hash is set and differs from
\* the SHA-256 of the payload bytes read for it fails with the hash-mismatch
\* error, and the output image holds exactly the bytes it held before.
C1_HashGate ==
    (Called /\ ~HashMatches(lastOp))
        => (err = "HashMismatch" /\ pc = "exited" /\ out_file = prevOut)

C1_Witness ==
    /\ Called
    /\ lastOp.type = "REPLACE"
    /\ ~HashMatches(lastOp)
    /\ prevOut # <<>>
    /\ err = "HashMismatch"

CodecOf(type) ==
    CASE type = "REPLACE_XZ" -> "xz"
      [] type = "REPLACE_BZ" -> "bz2"
      [] type = "ZSTD" -> "zstd"

\* the bytes a REPLACE-kind operation is to write: Failed when its payload is
\* not a stream of the matching codec
ReplacePayload(op) ==
    IF op.type = "REPLACE" THEN Ok(OpData(op))
    ELSE decompress(CodecOf(op.type), OpData(op))

\* C2: after a well-formed REPLACE, REPLACE_BZ, REPLACE_XZ or ZSTD operation
\* the output holds the (decompressed) payload bytes from byte offset
\* dst_extents[0].start_block * block_size on, and every byte the output held
\* outside that range is unchanged (a gap the write opens past the old end of
\* the file holds zeros).
C2_ReplaceWrites ==
    (Called /\ lastOp.type \in {"REPLACE"} \cup PackedTypes /\ HashMatches(lastOp)
       /\ ReplacePayload(lastOp).ok)
        => LET payload == ReplacePayload(lastOp).data
               off == lastOp.dst_extents[1].start_block * BlockSize
           IN  /\ err = "none"
               /\ Len(out_file) = Max(Len(prevOut), off + Len(payload))
               /\ SubSeq(out_file, off + 1, off + Len(payload)) = payload
               /\ \A i \in 1..Len(out_file) :
                    (i <= off \/ i > off + Len(payload))
                        => out_file[i] = (IF i <= Len(prevOut) THEN prevOut[i] ELSE 0)

C2_Witness ==
    /\ Called
    /\ lastOp.type = "REPLACE_XZ"
    /\ lastOp.dst_extents[1].start_block = 1
    /\ err = "none"
    /\ Len(prevOut) > 3 * BlockSize
    /\ BlockRange(out_file, 1, 2) = Fill(BlockSize, 7) \o Fill(BlockSize, 8)

\* C3: after a ZERO operation every byte of the output in the byte range of
\* every extent of dst_extents is 0x00, whatever the output held before and
\* whatever the operation's payload bytes are.
C3_ZeroFills ==
    (Called /\ lastOp.type = "ZERO" /\ HashMatches(lastOp))
        => /\ err = "none"
           /\ \A k \in 1..Len(lastOp.dst_extents) :
                LET ext == lastOp.dst_extents[k]
                IN  \A i \in ext.start_block * BlockSize + 1
                             ..(ext.start_block + ext.num_blocks) * BlockSize :
                      i <= Len(out_file) /\ out_file[i] = 0

C3_Witness ==
    /\ Called
    /\ lastOp.type = "ZERO"
    /\ lastOp.data_length > 0
    /\ lastOp.dst_extents = <<Ext(2, 1), Ext(0, 1)>>
    /\ Len(prevOut) > 3 * BlockSize
    /\ BlockRange(out_file, 0, 3) = Fill(BlockSize, 0) \o Fill(BlockSize, 238)
                                      \o Fill(BlockSize, 0)

\* blocks of the extents before the k-th
RECURSIVE BlocksBefore(_, _)
BlocksBefore(exts, k) ==
    IF k <= 1 THEN 0 ELSE exts[k - 1].num_blocks + BlocksBefore(exts, k - 1)

TotalBlocks(exts) == BlocksBefore(exts, Len(exts) + 1)

Disjoint(exts) ==
    \A j \in 1..Len(exts) : \A k \in 1..Len(exts) :
        j < k => \/ exts[j].start_block + exts[j].num_blocks <= exts[k].start_block
                 \/ exts[k].start_block + exts[k].num_blocks <= exts[j].start_block

\* the source bytes of src_extents, concatenated in extent order
SrcBuffer(op) ==
    Flatten([k \in 1..Len(op.src_extents) |->
               BlockRange(old_file, op.src_extents[k].start_block,
                          op.src_extents[k].num_blocks)])

\* C4 (as claimed): after a SOURCE_COPY in differential mode the k-th dst
\* extent holds the slice of the concatenated source bytes that starts at
\* block_size * (blocks of the earlier dst extents) and is num_blocks_k blocks
\* long, for any dst extents, adjacent or not. Stated for source extents that
\* lie inside the source image and dst extents that are disjoint and as long
\* in total as the source extents.
C4_CopySplitsByDstExtents ==
    (Called /\ lastOp.type = "SOURCE_COPY" /\ diff /\ err = "none"
       /\ Len(SrcBuffer(lastOp)) = TotalBlocks(lastOp.src_extents) * BlockSize
       /\ TotalBlocks(lastOp.dst_extents) = TotalBlocks(lastOp.src_extents)
       /\ Disjoint(lastOp.dst_extents))
        => \A k \in 1..Len(lastOp.dst_extents) :
             LET ext == lastOp.dst_extents[k]
                 from == BlocksBefore(lastOp.dst_extents, k)
             IN  BlockRange(out_file, ext.start_block, ext.num_blocks)
                   = BlockRange(SrcBuffer(lastOp), from, ext.num_blocks)

\* C5 (as claimed): after a SOURCE_BSDIFF or BROTLI_BSDIFF in differential
\* mode the output is what it was with, for each dst extent in order, the
\* slice of new_data at the blocks of the earlier dst extents written at the
\* extent's offset: no byte other than a byte of new_data is written.
C5_DiffWritesOnlyNewData ==
    (Called /\ lastOp.type \in DiffTypes /\ diff /\ err = "none")
        => LET new_data == patch(SrcBuffer(lastOp),
                                 bsdf2_read_patch(OpData(lastOp)).len_dst,
                                 bsdf2_read_patch(OpData(lastOp)).tcontrol,
                                 bsdf2_read_patch(OpData(lastOp)).bdiff,
                                 bsdf2_read_patch(OpData(lastOp)).bextra).data
           IN  out_file = DstLoop(lastOp.dst_extents, prevOut, 0, new_data)

\* C8: an operation whose type is none of the eight known ones fails, with the
\* unsupported-operation error unless the hash gate has already failed it, and
\* the output holds the same bytes after the failure as before the operation.
C8_UnsupportedLeavesOutput ==
    (Called /\ lastOp.type \notin KnownTypes)
        => /\ err # "none"
           /\ pc = "exited"
           /\ out_file = prevOut
           /\ (HashMatches(lastOp) => err = "Unsupported")

C8_Witness ==
    /\ Called
    /\ lastOp.type = "TYPE_255"
    /\ err = "Unsupported"
    /\ prevOut # <<>>
    /\ out_file = prevOut

---------------------------------------------------------------------------
(* Properties of the patch applier (specification SpecPatch) *)

\* sum of field j over the first k tuples of ts
RECURSIVE SumField(_, _, _)
SumField(ts, j, k) == IF k <= 0 THEN 0 ELSE ts[k][j] + SumField(ts, j, k - 1)

\* the cursors when tuple k starts
NewPosAt(ts, k) == SumField(ts, 1, k - 1) + SumField(ts, 2, k - 1)
OldPosAt(ts, k) == SumField(ts, 1, k - 1) + SumField(ts, 3, k - 1)
DiffPosAt(ts, k) == SumField(ts, 1, k - 1)
ExtraPosAt(ts, k) == SumField(ts, 2, k - 1)

\* tuples walked: up to the first after which the output has reached n bytes
Walked(ts, n) ==
    LET stops == {k \in 0..Len(ts) : k = Len(ts) \/ NewPosAt(ts, k + 1) >= n}
    IN  CHOOSE k \in stops : \A m \in stops : k <= m

\* tuple k reads inside old_data, the diff stream and the extra stream
ReadsInside(in, k) ==
    LET t == in.tcontrol[k]
    IN  /\ DiffPosAt(in.tcontrol, k) + t[1] <= Len(in.bdiff)
        /\ ExtraPosAt(in.tcontrol, k) + t[2] <= Len(in.bextra)
        /\ t[1] > 0 => /\ OldPosAt(in.tcontrol, k) >= 0
                       /\ OldPosAt(in.tcontrol, k) + t[1] <= Len(in.old_data)

\* C6: the applier walks the control tuples in order from old_pos = new_pos = 0;
\* a tuple emits copy_len bytes (diff_byte[i] + old_data[old_pos + i]) mod 256,
\* then extra_len bytes of the extra stream, then old_pos moves by
\* copy_len + seek_len; data is returned only when every read was inside its
\* buffer and the output is exactly new_data_length long, and the application
\* fails otherwise.
C6_PatchApplies ==
    p_out.done =>
        LET ts == p_in.tcontrol
            K == Walked(ts, p_in.len_dst)
            fine == /\ \A k \in 1..K : ReadsInside(p_in, k)
                    /\ NewPosAt(ts, K + 1) = p_in.len_dst
            new_data == p_out.res.data
        IN  /\ p_out.res.ok <=> fine
            /\ ~p_out.res.ok => new_data = <<>>
            /\ p_out.res.ok =>
                 /\ Len(new_data) = p_in.len_dst
                 /\ \A k \in 1..K :
                      /\ \A i \in 1..ts[k][1] :
                           new_data[NewPosAt(ts, k) + i]
                             = (p_in.bdiff[DiffPosAt(ts, k) + i]
                                + p_in.old_data[OldPosAt(ts, k) + i]) % 256
                      /\ \A i \in 1..ts[k][2] :
                           new_data[NewPosAt(ts, k) + ts[k][1] + i]
                             = p_in.bextra[ExtraPosAt(ts, k) + i]

C6_Witness ==
    /\ p_out.done
    /\ p_out.res.ok
    /\ p_in.old_data = <<10, 200>>
    /\ p_in.bdiff = <<1, 255>>
    /\ p_in.tcontrol = <<<<1, 1, 0>>, <<1, 0, -1>>>>
    /\ p_out.res.data = <<11, 77, 199>>

---------------------------------------------------------------------------
(* Properties of bsdf2_read_patch (specification SpecRead) *)

\* the decompressed control stream of the patch read
ControlStream == EncodeTuples(r_in.tuples) \o Fill(r_in.junk, 1)

\* C10: when the decompressed control stream's length is not a multiple of 24
\* bsdf2_read_patch fails and returns no patch; when it is, the control stream
\* read is exactly the 24-byte records in stream order, each three signed
\* 64-bit integers (copy_len, extra_len, seek_len).
C10_ControlStreamRecords ==
    r_out.done =>
        IF Len(ControlStream) % 24 # 0
        THEN r_out.res = NoPatch
        ELSE /\ r_out.res.ok
             /\ Len(r_out.res.tcontrol) * 24 = Len(ControlStream)
             /\ r_out.res.tcontrol = r_in.tuples

C10_Witness ==
    /\ r_out.done
    /\ Len(r_in.tuples) = 1
    /\ Len(ControlStream) = 40
    /\ r_in.magic = Bsdf2(1, 0, 2)
    /\ ~r_out.res.ok

---------------------------------------------------------------------------
(* Properties of the run (specification Spec) *)

OpLocalErrors == {"HashMismatch", "ModeError", "Unsupported", "CodecError",
                  "PatchError", "MissingSourceImage"}

C9_FinalSize ==
    finished => Len(out_file) = BlockSize * maxEnd

====
